---- MODULE Spec2Model ----
(***************************************************************************)
(* A model of bundler/src/util.rs: the MapWithMut take/replace protocol,   *)
(* the CloneMap / CHashSet containers in their two builds, join and        *)
(* into_par_iter with and without rayon, and HygieneRemover.               *)
(* Each part has its own specification:                                    *)
(*   SpecMut    take and map_with_mut on one location                      *)
(*   SpecMap    one thread calling get / insert on both builds             *)
(*   SpecConc   several threads calling get / insert on the DashMap build  *)
(*   SpecConcSet  several threads inserting into the DashMap-backed set    *)
(*   SpecReent  one thread whose Clone / Hash / Eq code calls back into    *)
(*              the container                                              *)
(*   SpecJoin   join(a, b) without rayon                                   *)
(*   SpecJoinPar  join(a, b) in a build without and in a build with rayon  *)
(*   SpecIter   into_par_iter() and the consumption of its result          *)
(*   SpecHyg    HygieneRemover passes over a tree                          *)
(* The variables of the other parts stay unchanged in each.                *)
(***************************************************************************)
EXTENDS Integers, Sequences, FiniteSets, TLC

VARIABLES
    \* ---- MapWithMut: one location `self` of a MapWithMut type ----
    slotTy,     \* the type of the location, e.g. <<"Box", "Expr">>
    slot,       \* the value the location currently holds
    slotPh,     \* TRUE iff the object in the location is a placeholder built by map_with_mut (line 20)
    mpc,        \* position inside map_with_mut: "idle", "taken", "midop", "applied"
    mv,         \* the local `v` of map_with_mut
    mvPh,       \* TRUE iff the object in `v` is a placeholder left by an earlier call
    mop,        \* the transform `op` of the running call
    applied,    \* how many times `op` has returned in the running / last call
    pre,        \* the value the location held when the last take / map_with_mut was entered
    ret,        \* the value returned by the last take()
    last,       \* how the last operation on the location ended
    failed,     \* TRUE iff a transform panicked since the location was last stored or taken
    seen,       \* what an observer outside map_with_mut last read from the location
    \* ---- CloneMap / CHashSet, one instance per build ----
    cmapC,      \* a CloneMap built with feature "concurrent": DashMap shards and their locks
    cmapS,      \* a CloneMap built without it: RefCell<HashMap>, the map and its borrow flag
    csetC,      \* the inner CloneMap<V, ()> of a CHashSet, concurrent build
    csetS,      \* the inner CloneMap<V, ()> of a CHashSet, sequential build
    ops,        \* the calls made so far, in the order they took effect
    retsC,      \* what each call returned on the concurrent build
    retsS,      \* what each call returned on the sequential build
    \* ---- threads on the concurrent build ----
    tpc,        \* per thread: "idle", "ilocked", "iread", "glocked"
    tcur,       \* per thread: the call it is in
    told,       \* per thread: the previous value its insert found
    \* ---- one thread with user code that calls back ----
    feature,    \* "concurrent" or "sequential": the build
    stack,      \* the call stack of get / insert frames, innermost last
    rpanic,     \* 0, or the smallest stack depth at which a call panicked
    \* ---- join ----
    jpc,        \* position inside join
    jA,         \* closure oper_a: its effects, whether it panics, its result
    jB,         \* closure oper_b
    jlog,       \* the effects recorded so far, in order
    jra,        \* what oper_a() returned
    jrb,        \* what oper_b() returned
    jres,       \* what join returned
    jrayon,     \* TRUE in a build with the rayon feature
    jpa,        \* rayon: position of oper_a
    jpb,        \* rayon: position of oper_b
    jruns,      \* how many times each closure was called
    \* ---- into_par_iter ----
    irayon,     \* TRUE in a build with the rayon feature
    iseq,       \* the collection into_par_iter is called on
    ipc,        \* "idle", "iterating", "done"
    inext,      \* without rayon: position of the iterator in the collection
    itodo,      \* rayon: positions not yet handed to a worker
    ivisit,     \* the visits so far, in order: <<position, element>>
    \* ---- HygieneRemover ----
    htree,      \* the tree the visitor is run on
    hhist,      \* the tree as it was at first and after each pass
    \* ---- what the caller of get keeps ----
    held        \* per get so far, in order: what each build returned

varsMut == <<slotTy, slot, slotPh, mpc, mv, mvPh, mop, applied, pre, ret, last, failed, seen>>

varsMap == <<cmapC, cmapS, csetC, csetS, ops, retsC, retsS>>

varsConc == <<tpc, tcur, told>>

varsReent == <<feature, stack, rpanic>>

varsJoin == <<jpc, jA, jB, jlog, jra, jrb, jres, jrayon, jpa, jpb, jruns>>

varsIter == <<irayon, iseq, ipc, inext, itodo, ivisit>>

varsHyg == <<htree, hhist>>

varsHeld == <<held>>

vars == <<varsMut, varsMap, varsConc, varsReent, varsJoin, varsIter, varsHyg, varsHeld>>

----------------------------------------------------------------------------
(* MapWithMut: values are constructor paths, flattened to tuples of strings *)

DUMMY_SP == "DUMMY_SP"

NoVal == <<"<none>">>

\* impl MapWithMut for Stmt
StmtDummy == <<"Stmt::Empty", DUMMY_SP>>

\* impl MapWithMut for ModuleItem
ModuleItemDummy == <<"ModuleItem::Stmt">> \o <<"Stmt::Empty", DUMMY_SP>>

\* impl MapWithMut for Expr
ExprDummy == <<"Expr::Invalid", DUMMY_SP>>

\* impl MapWithMut for Pat
PatDummy == <<"Pat::Invalid", DUMMY_SP>>

\* impl<T> MapWithMut for Option<T>
OptionDummy == <<"None">>

\* impl<T> MapWithMut for Vec<T>
VecDummy == << >>

\* impl MapWithMut for Ident: Ident::new(js_word!(""), DUMMY_SP)
IdentDummy == <<"Ident", "", DUMMY_SP>>

\* impl MapWithMut for ObjectPatProp: Assign { span, key: Ident::dummy(), value: None }
ObjectPatPropDummy == <<"ObjectPatProp::Assign", DUMMY_SP>> \o IdentDummy \o <<"None">>

\* impl MapWithMut for PatOrExpr: Pat(Box::new(Pat::Ident(Ident::dummy())))
PatOrExprDummy == <<"PatOrExpr::Pat", "Box", "Pat::Ident">> \o IdentDummy

BaseTypes == {"ModuleItem", "Stmt", "Expr", "Pat", "Option", "Vec", "Ident",
              "ObjectPatProp", "PatOrExpr"}

\* Box<T> is MapWithMut only where T is: the types of the model are the base
\* types and the boxes of the node types the bundler boxes.
Types == {<<b>> : b \in BaseTypes} \cup {<<"Box", b>> : b \in {"Stmt", "Expr", "Pat"}}

RECURSIVE dummy(_)
dummy(ty) ==
    CASE Head(ty) = "Box"           -> <<"Box">> \o dummy(Tail(ty))
      [] Head(ty) = "ModuleItem"    -> ModuleItemDummy
      [] Head(ty) = "Stmt"          -> StmtDummy
      [] Head(ty) = "Expr"          -> ExprDummy
      [] Head(ty) = "Pat"           -> PatDummy
      [] Head(ty) = "Option"        -> OptionDummy
      [] Head(ty) = "Vec"           -> VecDummy
      [] Head(ty) = "Ident"         -> IdentDummy
      [] Head(ty) = "ObjectPatProp" -> ObjectPatPropDummy
      [] Head(ty) = "PatOrExpr"     -> PatOrExprDummy

\* Two values of each type besides its dummy: the values a location is given.
RECURSIVE Real(_)
Real(ty) ==
    CASE Head(ty) = "Box"           -> [i \in 1..2 |-> <<"Box">> \o Real(Tail(ty))[i]]
      [] Head(ty) = "ModuleItem"    -> << <<"ModuleItem::Stmt", "Stmt::Debugger", "sp1">>,
                                          <<"ModuleItem::ModuleDecl", "ExportAll", "sp1">> >>
      [] Head(ty) = "Stmt"          -> << <<"Stmt::Empty", "sp1">>, <<"Stmt::Debugger", "sp1">> >>
      [] Head(ty) = "Expr"          -> << <<"Expr::This", "sp1">>, <<"Expr::Ident", "x", "sp1">> >>
      [] Head(ty) = "Pat"           -> << <<"Pat::Ident", "Ident", "x", "sp1">>,
                                          <<"Pat::Expr", "Box", "Expr::This", "sp1">> >>
      [] Head(ty) = "Option"        -> << <<"Some", "a">>, <<"Some", "b">> >>
      [] Head(ty) = "Vec"           -> << <<"a">>, <<"a", "b">> >>
      [] Head(ty) = "Ident"         -> << <<"Ident", "x", "sp1">>, <<"Ident", "", "sp1">> >>
      [] Head(ty) = "ObjectPatProp" -> << <<"ObjectPatProp::Assign", "sp1", "Ident", "x", "sp1", "None">>,
                                          <<"ObjectPatProp::Rest", "sp1", "Pat::Invalid", DUMMY_SP>> >>
      [] Head(ty) = "PatOrExpr"     -> << <<"PatOrExpr::Expr", "Box", "Expr::This", "sp1">>,
                                          <<"PatOrExpr::Pat", "Box", "Pat::Invalid", DUMMY_SP>> >>

Vals(ty) == {dummy(ty), Real(ty)[1], Real(ty)[2]}

\* The transforms handed to map_with_mut: the identity, one that returns the
\* type's dummy, one that rewrites the node, one that panics at once and one
\* that panics after it has rewritten the node it owns.
Ops == {"id", "dummy", "rewrite", "panic", "rewrite_panic"}

Rewrite(ty, v) ==
    IF v = dummy(ty) THEN Real(ty)[1]
    ELSE IF v = Real(ty)[1] THEN Real(ty)[2]
    ELSE dummy(ty)

\* What `op(v)` returns when it returns.
OpApply(op, ty, v) ==
    CASE op = "id"      -> v
      [] op = "dummy"   -> dummy(ty)
      [] op = "rewrite" -> Rewrite(ty, v)

\* std::mem::replace(dest, src): <<the new content of dest, the value returned>>
replaceBug(dest, src) == <<src, src>>

replace(dest, src) == <<src, dest>>

InitMut ==
    /\ slotTy \in Types
    /\ slot \in Vals(slotTy)
    /\ slotPh = FALSE
    /\ mpc = "idle"
    /\ mv = NoVal
    /\ mvPh = FALSE
    /\ mop = "id"
    /\ applied = 0
    /\ pre = NoVal
    /\ ret = NoVal
    /\ last = "init"
    /\ failed = FALSE
    /\ seen = [val |-> NoVal, ph |-> FALSE, last |-> "none", failed |-> FALSE]

\* The owner of the location writes a value into it (no call in progress).
Store(x) ==
    /\ mpc = "idle"
    /\ slot' = x
    /\ slotPh' = FALSE
    /\ last' = "store"
    /\ failed' = FALSE
    /\ UNCHANGED <<slotTy, mpc, mv, mvPh, mop, applied, pre, ret, seen>>

\* fn take(&mut self) -> Self { replace(self, Self::dummy()) }
take ==
    /\ mpc = "idle"
    /\ LET r == replace(slot, dummy(slotTy)) IN
         /\ slot' = r[1]
         /\ ret' = r[2]
    /\ pre' = slot
    /\ slotPh' = FALSE
    /\ last' = "take"
    /\ failed' = FALSE
    /\ UNCHANGED <<slotTy, mpc, mv, mvPh, mop, applied, seen>>

\* map_with_mut, lines 20-21: let dummy = Self::dummy(); let v = replace(self, dummy);
MapBegin(op) ==
    /\ mpc = "idle"
    /\ LET r == replace(slot, dummy(slotTy)) IN
         /\ slot' = r[1]
         /\ mv' = r[2]
    /\ mvPh' = slotPh
    /\ slotPh' = TRUE
    /\ pre' = slot
    /\ mop' = op
    /\ applied' = 0
    /\ mpc' = "taken"
    /\ UNCHANGED <<slotTy, ret, last, failed, seen>>

\* line 22, a transform that returns: let v = op(v);
MapApplyBug ==
    /\ mpc = "taken"
    /\ mop \in {"id", "dummy", "rewrite"}
    /\ mv' = OpApply(mop, slotTy, OpApply(mop, slotTy, mv))
    /\ mvPh' = (mop = "id" /\ mvPh)
    /\ applied' = applied + 2
    /\ mpc' = "applied"
    /\ UNCHANGED <<slotTy, slot, slotPh, mop, pre, ret, last, failed, seen>>

MapApply ==
    /\ mpc = "taken"
    /\ mop \in {"id", "dummy", "rewrite"}
    /\ mv' = OpApply(mop, slotTy, mv)
    /\ mvPh' = (mop = "id" /\ mvPh)
    /\ applied' = applied + 1
    /\ mpc' = "applied"
    /\ UNCHANGED <<slotTy, slot, slotPh, mop, pre, ret, last, failed, seen>>

\* line 22, a transform that rewrites the node it owns and then panics: the
\* rewrite happens on `v`, which op owns, not on the location.
MapOpPartial ==
    /\ mpc = "taken"
    /\ mop = "rewrite_panic"
    /\ mv' = Rewrite(slotTy, mv)
    /\ mvPh' = FALSE
    /\ mpc' = "midop"
    /\ UNCHANGED <<slotTy, slot, slotPh, mop, applied, pre, ret, last, failed, seen>>

\* line 22, the transform panics: the unwinding drops `v` and leaves
\* map_with_mut before line 23; the panic reaches the caller.
MapPanicBug ==
    /\ \/ mpc = "taken" /\ mop = "panic"
       \/ mpc = "midop"
    /\ slot' = pre
    /\ slotPh' = FALSE
    /\ mv' = NoVal
    /\ mvPh' = FALSE
    /\ mpc' = "idle"
    /\ last' = "map_panic"
    /\ failed' = TRUE
    /\ UNCHANGED <<slotTy, mop, applied, pre, ret, seen>>

MapPanic ==
    /\ \/ mpc = "taken" /\ mop = "panic"
       \/ mpc = "midop"
    /\ mv' = NoVal
    /\ mvPh' = FALSE
    /\ mpc' = "idle"
    /\ last' = "map_panic"
    /\ failed' = TRUE
    /\ UNCHANGED <<slotTy, slot, slotPh, mop, applied, pre, ret, seen>>

\* line 23: let _dummy = replace(self, v);
MapEndBug ==
    /\ mpc = "applied"
    /\ mv' = NoVal
    /\ mvPh' = FALSE
    /\ mpc' = "idle"
    /\ last' = "map_ok"
    /\ UNCHANGED <<slotTy, slot, slotPh, mop, applied, pre, ret, failed, seen>>

MapEnd ==
    /\ mpc = "applied"
    /\ slot' = replace(slot, mv)[1]
    /\ slotPh' = mvPh
    /\ mv' = NoVal
    /\ mvPh' = FALSE
    /\ mpc' = "idle"
    /\ last' = "map_ok"
    /\ UNCHANGED <<slotTy, mop, applied, pre, ret, failed, seen>>

\* map_with_mut holds `&mut self` from entry to exit, so any other read of the
\* location happens while no call is in progress.
Observe ==
    /\ mpc = "idle"
    /\ seen' = [val |-> slot, ph |-> slotPh, last |-> last, failed |-> failed]
    /\ UNCHANGED <<slotTy, slot, slotPh, mpc, mv, mvPh, mop, applied, pre, ret, last, failed>>

----------------------------------------------------------------------------
(* CloneMap and CHashSet *)

NKeys == 3
NVals == 2
NShards == 2
MaxOps == 3

Keys == 1..NKeys
Values == 1..NVals
Shards == 0..(NShards - 1)

\* Option<V>: None is the empty tuple, Some(v) the tuple of v.
None == << >>
Some(v) == <<v>>
is_none(o) == o = None

\* The unit value a CHashSet stores under each element.
Unit == "()"

\* V::clone of a stored value: a new value with the same content.
clone(v) == v

\* DashMap picks the shard of a key from the key's hash.
Hash(k) == (k + 1) \div 2
ShardOf(k) == Hash(k) % NShards

\* inner: Default::default(), both builds: no entry, no lock or borrow held.
\* A lock is 0 when free, n > 0 when n readers hold it, -1 when a writer does;
\* the RefCell's borrow flag counts the same way.
EmptyC == [shards |-> [s \in Shards |-> [k \in Keys |-> None]],
           locks  |-> [s \in Shards |-> 0]]
EmptyS == [map |-> [k \in Keys |-> None], borrow |-> 0]

\* DashMap: the shard's RwLock
CanReadLock(m, k) == m.locks[ShardOf(k)] >= 0
CanWriteLockBug(m, k) == TRUE
CanWriteLock(m, k) == m.locks[ShardOf(k)] = 0
ReadLock(m, k) == [m EXCEPT !.locks[ShardOf(k)] = @ + 1]
ReadUnlock(m, k) == [m EXCEPT !.locks[ShardOf(k)] = @ - 1]
WriteLock(m, k) == [m EXCEPT !.locks[ShardOf(k)] = -1]
WriteUnlock(m, k) == [m EXCEPT !.locks[ShardOf(k)] = 0]

\* DashMap: the entry of k in its shard, read and written under the lock
ShardRead(m, k) == m.shards[ShardOf(k)][k]
ShardWriteBug(m, k, v) ==
    [m EXCEPT !.shards[ShardOf(k)] = [j \in Keys |-> IF j = k THEN Some(v) ELSE None]]
ShardWrite(m, k, v) == [m EXCEPT !.shards[ShardOf(k)][k] = Some(v)]

\* RefCell: borrow() and borrow_mut() panic when the flag forbids them
CanBorrow(m) == m.borrow >= 0
CanBorrowMut(m) == m.borrow = 0
Borrow(m) == [m EXCEPT !.borrow = @ + 1]
BorrowEndBug(m) == m
BorrowEnd(m) == [m EXCEPT !.borrow = @ - 1]
BorrowMut(m) == [m EXCEPT !.borrow = -1]
BorrowMutEnd(m) == [m EXCEPT !.borrow = 0]

\* Option<&V> -> Option<V>: Some(v.clone()) or None (lines 160-164, 169-173)
CloneOut(o) == IF is_none(o) THEN None ELSE Some(clone(o[1]))

\* #[cfg(feature = "concurrent")] CloneMap::get, run without interruption:
\* the lock is taken, the entry cloned, the lock released.
GetCBug(m, k) ==
    [map |-> ReadUnlock(ReadLock(m, k), k),
     ret |-> CloneOut(ReadLock(m, k).shards[(ShardOf(k) + 1) % NShards][k])]

GetC(m, k) ==
    [map |-> ReadUnlock(ReadLock(m, k), k),
     ret |-> CloneOut(ShardRead(ReadLock(m, k), k))]

\* #[cfg(not(feature = "concurrent"))] CloneMap::get
GetSBug(m, k) ==
    [map |-> BorrowEnd([Borrow(m) EXCEPT !.map[k] = None]),
     ret |-> CloneOut(Borrow(m).map[k])]

GetS(m, k) ==
    [map |-> BorrowEnd(Borrow(m)),
     ret |-> CloneOut(Borrow(m).map[k])]

\* #[cfg(feature = "concurrent")] CloneMap::insert
InsertC(m, k, v) ==
    [map |-> WriteUnlock(ShardWrite(WriteLock(m, k), k, v), k),
     ret |-> ShardRead(WriteLock(m, k), k)]

\* #[cfg(not(feature = "concurrent"))] CloneMap::insert
InsertSBug(m, k, v) ==
    [map |-> BorrowMutEnd([BorrowMut(m) EXCEPT !.map[k] = Some(v)]),
     ret |-> Some(v)]

InsertS(m, k, v) ==
    [map |-> BorrowMutEnd([BorrowMut(m) EXCEPT !.map[k] = Some(v)]),
     ret |-> BorrowMut(m).map[k]]

\* CHashSet::insert: self.inner.insert(v, ()).is_none()
SetInsertResultBug(r) == ~is_none(r)

SetInsertResult(r) == is_none(r)

\* get returns Option<V>: a value the caller owns, not a reference into the
\* container. What the caller holds: an owned value, or else a reference
\* that shows whatever the container holds under the key now.
Returned(o) == [owned |-> TRUE, val |-> o]

Deref(h, now) == IF h.owned THEN h.val ELSE now

\* the entry under a key in the RefCell's HashMap
LookupS(m, k) == m.map[k]

MapGet(k) ==
    /\ Len(ops) < MaxOps
    /\ CanReadLock(cmapC, k)
    /\ CanBorrow(cmapS)
    /\ cmapC' = GetC(cmapC, k).map
    /\ cmapS' = GetS(cmapS, k).map
    /\ ops' = Append(ops, [t |-> 0, op |-> "get", k |-> k, v |-> 0])
    /\ retsC' = Append(retsC, GetC(cmapC, k).ret)
    /\ retsS' = Append(retsS, GetS(cmapS, k).ret)
    /\ held' = Append(held, [k |-> k, at |-> Len(ops) + 1,
                             c |-> Returned(GetC(cmapC, k).ret),
                             s |-> Returned(GetS(cmapS, k).ret)])
    /\ UNCHANGED <<csetC, csetS>>

\* One thread calls insert on the CloneMap of each build.
MapInsert(k, v) ==
    /\ Len(ops) < MaxOps
    /\ CanWriteLock(cmapC, k)
    /\ CanBorrowMut(cmapS)
    /\ cmapC' = InsertC(cmapC, k, v).map
    /\ cmapS' = InsertS(cmapS, k, v).map
    /\ ops' = Append(ops, [t |-> 0, op |-> "insert", k |-> k, v |-> v])
    /\ retsC' = Append(retsC, InsertC(cmapC, k, v).ret)
    /\ retsS' = Append(retsS, InsertS(cmapS, k, v).ret)
    /\ UNCHANGED <<csetC, csetS, held>>

\* One thread calls insert on the CHashSet of each build.
SetInsert(e) ==
    /\ Len(ops) < MaxOps
    /\ CanWriteLock(csetC, e)
    /\ CanBorrowMut(csetS)
    /\ csetC' = InsertC(csetC, e, Unit).map
    /\ csetS' = InsertS(csetS, e, Unit).map
    /\ ops' = Append(ops, [t |-> 0, op |-> "set_insert", k |-> e, v |-> 0])
    /\ retsC' = Append(retsC, SetInsertResult(InsertC(csetC, e, Unit).ret))
    /\ retsS' = Append(retsS, SetInsertResult(InsertS(csetS, e, Unit).ret))
    /\ UNCHANGED <<cmapC, cmapS, held>>

----------------------------------------------------------------------------
(* Several threads on the concurrent build.  A call is three steps for     *)
(* insert (take the shard's write lock; read the previous entry; write the *)
(* new one and release) and two for get (take the read lock; clone and     *)
(* release), so that the lock is what keeps a call atomic.                 *)

NThreads == 2
NHotKeys == 2

Threads == 1..NThreads

\* The keys the contending calls use.
HotKeys == 1..NHotKeys

NoCall == [op |-> "none", k |-> 0, v |-> 0]

\* The calls begun so far; every insert stores a value no other insert stores.
Started == Len(ops) + Cardinality({t \in Threads : tpc[t] # "idle"})

\* insert, line 178: the shard's write lock is taken (the thread waits for it)
InsertLock(t, k) ==
    /\ tpc[t] = "idle"
    /\ Started < MaxOps
    /\ CanWriteLock(cmapC, k)
    /\ cmapC' = WriteLock(cmapC, k)
    /\ tcur' = [tcur EXCEPT ![t] = [op |-> "insert", k |-> k, v |-> Started + 1]]
    /\ tpc' = [tpc EXCEPT ![t] = "ilocked"]
    /\ UNCHANGED <<told, cmapS, csetC, csetS, ops, retsC, retsS>>

\* insert, line 178: under the lock, the previous entry is read
InsertRead(t) ==
    /\ tpc[t] = "ilocked"
    /\ told' = [told EXCEPT ![t] = ShardRead(cmapC, tcur[t].k)]
    /\ tpc' = [tpc EXCEPT ![t] = "iread"]
    /\ UNCHANGED <<tcur, cmapC, cmapS, csetC, csetS, ops, retsC, retsS>>

\* insert, line 178: the new entry is written, the lock released, the
\* previous entry returned
InsertWrite(t) ==
    /\ tpc[t] = "iread"
    /\ cmapC' = WriteUnlock(ShardWrite(cmapC, tcur[t].k, tcur[t].v), tcur[t].k)
    /\ ops' = Append(ops, [t |-> t, op |-> "insert", k |-> tcur[t].k, v |-> tcur[t].v])
    /\ retsC' = Append(retsC, told[t])
    /\ told' = [told EXCEPT ![t] = None]
    /\ tcur' = [tcur EXCEPT ![t] = NoCall]
    /\ tpc' = [tpc EXCEPT ![t] = "idle"]
    /\ UNCHANGED <<cmapS, csetC, csetS, retsS>>

\* get, line 160: the shard's read lock is taken
GetLock(t, k) ==
    /\ tpc[t] = "idle"
    /\ Started < MaxOps
    /\ CanReadLock(cmapC, k)
    /\ cmapC' = ReadLock(cmapC, k)
    /\ tcur' = [tcur EXCEPT ![t] = [op |-> "get", k |-> k, v |-> 0]]
    /\ tpc' = [tpc EXCEPT ![t] = "glocked"]
    /\ UNCHANGED <<told, cmapS, csetC, csetS, ops, retsC, retsS>>

\* get, lines 160-164: the entry is cloned under the lock, the lock released
GetClone(t) ==
    /\ tpc[t] = "glocked"
    /\ retsC' = Append(retsC, CloneOut(ShardRead(cmapC, tcur[t].k)))
    /\ cmapC' = ReadUnlock(cmapC, tcur[t].k)
    /\ ops' = Append(ops, [t |-> t, op |-> "get", k |-> tcur[t].k, v |-> 0])
    /\ tcur' = [tcur EXCEPT ![t] = NoCall]
    /\ tpc' = [tpc EXCEPT ![t] = "idle"]
    /\ UNCHANGED <<told, cmapS, csetC, csetS, retsS>>

\* CHashSet::insert, line 114: self.inner.insert(v, ()) takes the write lock
\* of the element's shard (the thread waits for it)
SetInsertLock(t, e) ==
    /\ tpc[t] = "idle"
    /\ Started < MaxOps
    /\ CanWriteLock(csetC, e)
    /\ csetC' = WriteLock(csetC, e)
    /\ tcur' = [tcur EXCEPT ![t] = [op |-> "set_insert", k |-> e, v |-> 0]]
    /\ tpc' = [tpc EXCEPT ![t] = "slocked"]
    /\ UNCHANGED <<told, cmapC, cmapS, csetS, ops, retsC, retsS>>

\* line 114: under the lock, the previous entry of the element is read
SetInsertRead(t) ==
    /\ tpc[t] = "slocked"
    /\ told' = [told EXCEPT ![t] = ShardRead(csetC, tcur[t].k)]
    /\ tpc' = [tpc EXCEPT ![t] = "sread"]
    /\ UNCHANGED <<tcur, cmapC, cmapS, csetC, csetS, ops, retsC, retsS>>

\* line 114: the entry (v, ()) is written, the lock released, and
\* .is_none() of the previous entry returned
SetInsertWrite(t) ==
    /\ tpc[t] = "sread"
    /\ csetC' = WriteUnlock(ShardWrite(csetC, tcur[t].k, Unit), tcur[t].k)
    /\ ops' = Append(ops, [t |-> t, op |-> "set_insert", k |-> tcur[t].k, v |-> 0])
    /\ retsC' = Append(retsC, SetInsertResult(told[t]))
    /\ told' = [told EXCEPT ![t] = None]
    /\ tcur' = [tcur EXCEPT ![t] = NoCall]
    /\ tpc' = [tpc EXCEPT ![t] = "idle"]
    /\ UNCHANGED <<cmapC, cmapS, csetS, retsS>>
----------------------------------------------------------------------------
(* One thread, and user code that calls back.  get clones the value while  *)
(* it holds the RefCell borrow / the shard's read lock; insert hashes and  *)
(* compares the key while it holds the mutable borrow / the write lock.    *)
(* V::clone, K::hash and K::eq are the caller's code and may call get or   *)
(* insert on the same container.                                           *)

MaxDepth == 2

\* get takes a key only; insert a key and a value.
ArgsOf(op) == IF op = "get" THEN {0} ELSE Values

Top == stack[Len(stack)]

UsesC == feature = "concurrent"

\* Whether the frame's call can take what it needs: lines 160, 169, 178, 183
RCanAcquire(f) ==
    IF UsesC
    THEN IF f.op = "get" THEN CanReadLock(cmapC, f.k) ELSE CanWriteLock(cmapC, f.k)
    ELSE IF f.op = "get" THEN CanBorrow(cmapS) ELSE CanBorrowMut(cmapS)

\* The caller calls get or insert.
RCall(op, k, v) ==
    /\ stack = << >>
    /\ Len(ops) < MaxOps
    /\ stack' = <<[op |-> op, k |-> k, v |-> v, pc |-> "entered"]>>
    /\ UNCHANGED <<feature, rpanic, varsMap>>

\* borrow() / borrow_mut() / the shard lock succeeds
RAcquire ==
    /\ stack # << >>
    /\ Top.pc = "entered"
    /\ RCanAcquire(Top)
    /\ IF UsesC
       THEN /\ cmapC' = IF Top.op = "get" THEN ReadLock(cmapC, Top.k) ELSE WriteLock(cmapC, Top.k)
            /\ UNCHANGED cmapS
       ELSE /\ cmapS' = IF Top.op = "get" THEN Borrow(cmapS) ELSE BorrowMut(cmapS)
            /\ UNCHANGED cmapC
    /\ stack' = [stack EXCEPT ![Len(stack)].pc = "held"]
    /\ UNCHANGED <<feature, rpanic, csetC, csetS, ops, retsC, retsS>>

\* Sequential build: borrow() while mutably borrowed, or borrow_mut() while
\* borrowed, panics ("already borrowed"); the unwinding drops every guard.
RBorrowPanic ==
    /\ stack # << >>
    /\ Top.pc = "entered"
    /\ ~UsesC
    /\ ~RCanAcquire(Top)
    /\ rpanic' = IF rpanic = 0 \/ Len(stack) < rpanic THEN Len(stack) ELSE rpanic
    /\ stack' = << >>
    /\ cmapS' = [cmapS EXCEPT !.borrow = 0]
    /\ UNCHANGED <<feature, cmapC, csetC, csetS, ops, retsC, retsS>>

\* Whether the frame is running user code under its guard: get clones the
\* value only when the key is present (lines 160-161, 169-170); insert
\* hashes the key in any case.
RunsUserCode(f) ==
    /\ f.pc = "held"
    /\ f.op = "get" => ~is_none(IF UsesC THEN ShardRead(cmapC, f.k) ELSE cmapS.map[f.k])

\* The user code of the innermost call calls get or insert itself.
RUserCall(op, k, v) ==
    /\ stack # << >>
    /\ RunsUserCode(Top)
    /\ Len(stack) < MaxDepth
    /\ Len(ops) + Len(stack) < MaxOps
    /\ stack' = Append(stack, [op |-> op, k |-> k, v |-> v, pc |-> "entered"])
    /\ UNCHANGED <<feature, rpanic, varsMap>>

\* The innermost call finishes: result, guard dropped, return.
RReturn ==
    /\ stack # << >>
    /\ Top.pc = "held"
    /\ LET f == Top
           rec == [t |-> 0, op |-> f.op, k |-> f.k, v |-> f.v, d |-> Len(stack)] IN
       IF UsesC
       THEN /\ cmapC' = IF f.op = "get" THEN ReadUnlock(cmapC, f.k)
                        ELSE WriteUnlock(ShardWrite(cmapC, f.k, f.v), f.k)
            /\ retsC' = Append(retsC, IF f.op = "get" THEN CloneOut(ShardRead(cmapC, f.k))
                                      ELSE ShardRead(cmapC, f.k))
            /\ ops' = Append(ops, rec)
            /\ UNCHANGED <<cmapS, retsS>>
       ELSE /\ cmapS' = IF f.op = "get" THEN BorrowEnd(cmapS)
                        ELSE BorrowMutEnd([cmapS EXCEPT !.map[f.k] = Some(f.v)])
            /\ retsS' = Append(retsS, IF f.op = "get" THEN CloneOut(cmapS.map[f.k])
                                      ELSE cmapS.map[f.k])
            /\ ops' = Append(ops, rec)
            /\ UNCHANGED <<cmapC, retsC>>
    /\ stack' = SubSeq(stack, 1, Len(stack) - 1)
    /\ UNCHANGED <<feature, rpanic, csetC, csetS>>

\* Concurrent build: the innermost call waits for a shard lock that a frame
\* below it on the same thread holds; nothing can release it.
RBlocked ==
    /\ stack # << >>
    /\ Top.pc = "entered"
    /\ UsesC
    /\ ~RCanAcquire(Top)

----------------------------------------------------------------------------
(* join without rayon: (oper_a(), oper_b()) *)

MaxEff == 2
NResults == 2

\* A closure: how many effects it records, whether it then panics instead
\* of returning, and what it returns.
Closures == [n : 0..MaxEff, panics : BOOLEAN, val : 1..NResults]

NoRes == 0

\* how many times each closure has been called by the current join
NoRuns == [a |-> 0, b |-> 0]

Count(who) == Cardinality({i \in 1..Len(jlog) : jlog[i][1] = who})

\* The caller calls join(oper_a, oper_b).
JoinCall(a, b) ==
    /\ ~jrayon
    /\ jpc \in {"idle", "returned", "panicked"}
    /\ jruns' = NoRuns
    /\ UNCHANGED <<jrayon, jpa, jpb>>
    /\ jA' = a
    /\ jB' = b
    /\ jlog' = << >>
    /\ jra' = NoRes
    /\ jrb' = NoRes
    /\ jres' = <<NoRes, NoRes>>
    /\ jpc' = "called"

\* line 206: the first element of the tuple, oper_a(), is evaluated first
AStart ==
    /\ jpc = "called"
    /\ jpc' = "a_running"
    /\ jruns' = [jruns EXCEPT !.a = @ + 1]
    /\ UNCHANGED <<jrayon, jpa, jpb, jA, jB, jlog, jra, jrb, jres>>

AEffect ==
    /\ jpc = "a_running"
    /\ Count("a") < jA.n
    /\ jlog' = Append(jlog, <<"a", Count("a") + 1>>)
    /\ UNCHANGED <<jrayon, jpa, jpb, jruns, jpc, jA, jB, jra, jrb, jres>>

AReturn ==
    /\ jpc = "a_running"
    /\ Count("a") = jA.n
    /\ ~jA.panics
    /\ jra' = jA.val
    /\ jpc' = "a_done"
    /\ UNCHANGED <<jrayon, jpa, jpb, jruns, jA, jB, jlog, jrb, jres>>

\* oper_a panics: join unwinds, oper_b is dropped uncalled
APanicBug ==
    /\ jpc = "a_running"
    /\ Count("a") = jA.n
    /\ jA.panics
    /\ jpc' = "a_done"
    /\ UNCHANGED <<jrayon, jpa, jpb, jruns, jA, jB, jlog, jra, jrb, jres>>

APanic ==
    /\ jpc = "a_running"
    /\ Count("a") = jA.n
    /\ jA.panics
    /\ jpc' = "panicked"
    /\ UNCHANGED <<jrayon, jpa, jpb, jruns, jA, jB, jlog, jra, jrb, jres>>

\* line 206: the second element, oper_b(), is evaluated after the first
BStartBug ==
    /\ jpc = "called"
    /\ jpc' = "b_running"
    /\ jruns' = [jruns EXCEPT !.b = @ + 1]
    /\ UNCHANGED <<jrayon, jpa, jpb, jA, jB, jlog, jra, jrb, jres>>

BStart ==
    /\ jpc = "a_done"
    /\ jpc' = "b_running"
    /\ jruns' = [jruns EXCEPT !.b = @ + 1]
    /\ UNCHANGED <<jrayon, jpa, jpb, jA, jB, jlog, jra, jrb, jres>>

BEffect ==
    /\ jpc = "b_running"
    /\ Count("b") < jB.n
    /\ jlog' = Append(jlog, <<"b", Count("b") + 1>>)
    /\ UNCHANGED <<jrayon, jpa, jpb, jruns, jpc, jA, jB, jra, jrb, jres>>

BReturn ==
    /\ jpc = "b_running"
    /\ Count("b") = jB.n
    /\ ~jB.panics
    /\ jrb' = jB.val
    /\ jpc' = "b_done"
    /\ UNCHANGED <<jrayon, jpa, jpb, jruns, jA, jB, jlog, jra, jres>>

BPanicBug ==
    /\ jpc = "b_running"
    /\ Count("b") = jB.n
    /\ jB.panics
    /\ jpc' = "b_done"
    /\ UNCHANGED <<jrayon, jpa, jpb, jruns, jA, jB, jlog, jra, jrb, jres>>

BPanic ==
    /\ jpc = "b_running"
    /\ Count("b") = jB.n
    /\ jB.panics
    /\ jpc' = "panicked"
    /\ UNCHANGED <<jrayon, jpa, jpb, jruns, jA, jB, jlog, jra, jrb, jres>>

\* line 206: the tuple is built and returned
JoinReturnBug ==
    /\ jpc = "b_done"
    /\ jres' = <<jrb, jra>>
    /\ jpc' = "returned"
    /\ UNCHANGED <<jrayon, jpa, jpb, jruns, jA, jB, jlog, jra, jrb>>

JoinReturn ==
    /\ jpc = "b_done"
    /\ jres' = <<jra, jrb>>
    /\ jpc' = "returned"
    /\ UNCHANGED <<jrayon, jpa, jpb, jruns, jA, jB, jlog, jra, jrb>>


----------------------------------------------------------------------------
(* join with rayon: rayon::join(oper_a, oper_b)                             *)
(* oper_b is pushed as a job that another worker may steal; oper_a runs on  *)
(* the calling thread; the caller then runs oper_b itself unless it was     *)
(* stolen. Both closures are always executed; a panic of either is resumed  *)
(* in the caller once both have finished.                                   *)

RayJoinCall(a, b) ==
    /\ jrayon
    /\ jpc \in {"idle", "returned", "panicked"}
    /\ jA' = a
    /\ jB' = b
    /\ jlog' = << >>
    /\ jra' = NoRes
    /\ jrb' = NoRes
    /\ jres' = <<NoRes, NoRes>>
    /\ jruns' = NoRuns
    /\ jpa' = "ready"
    /\ jpb' = "ready"
    /\ jpc' = "forked"
    /\ UNCHANGED jrayon

RayAStart ==
    /\ jpc = "forked"
    /\ jpa = "ready"
    /\ jpa' = "running"
    /\ jruns' = [jruns EXCEPT !.a = @ + 1]
    /\ UNCHANGED <<jrayon, jpc, jpb, jA, jB, jlog, jra, jrb, jres>>

RayAEffect ==
    /\ jpc = "forked"
    /\ jpa = "running"
    /\ Count("a") < jA.n
    /\ jlog' = Append(jlog, <<"a", Count("a") + 1>>)
    /\ UNCHANGED <<jrayon, jpc, jpa, jpb, jruns, jA, jB, jra, jrb, jres>>

RayAReturn ==
    /\ jpc = "forked"
    /\ jpa = "running"
    /\ Count("a") = jA.n
    /\ ~jA.panics
    /\ jra' = jA.val
    /\ jpa' = "done"
    /\ UNCHANGED <<jrayon, jpc, jpb, jruns, jA, jB, jlog, jrb, jres>>

\* the panic of oper_a is caught and kept until oper_b has finished
RayAPanic ==
    /\ jpc = "forked"
    /\ jpa = "running"
    /\ Count("a") = jA.n
    /\ jA.panics
    /\ jpa' = "panicked"
    /\ UNCHANGED <<jrayon, jpc, jpb, jruns, jA, jB, jlog, jra, jrb, jres>>

\* oper_b starts at any time after the call: stolen by another worker, or
\* popped back by the caller once oper_a has finished
RayBStart ==
    /\ jpc = "forked"
    /\ jpb = "ready"
    /\ jpb' = "running"
    /\ jruns' = [jruns EXCEPT !.b = @ + 1]
    /\ UNCHANGED <<jrayon, jpc, jpa, jA, jB, jlog, jra, jrb, jres>>

RayBEffect ==
    /\ jpc = "forked"
    /\ jpb = "running"
    /\ Count("b") < jB.n
    /\ jlog' = Append(jlog, <<"b", Count("b") + 1>>)
    /\ UNCHANGED <<jrayon, jpc, jpa, jpb, jruns, jA, jB, jra, jrb, jres>>

RayBReturn ==
    /\ jpc = "forked"
    /\ jpb = "running"
    /\ Count("b") = jB.n
    /\ ~jB.panics
    /\ jrb' = jB.val
    /\ jpb' = "done"
    /\ UNCHANGED <<jrayon, jpc, jpa, jruns, jA, jB, jlog, jra, jres>>

RayBPanic ==
    /\ jpc = "forked"
    /\ jpb = "running"
    /\ Count("b") = jB.n
    /\ jB.panics
    /\ jpb' = "panicked"
    /\ UNCHANGED <<jrayon, jpc, jpa, jruns, jA, jB, jlog, jra, jrb, jres>>

\* both closures returned: the pair (result of a, result of b)
RayJoinReturn ==
    /\ jpc = "forked"
    /\ jpa = "done"
    /\ jpb = "done"
    /\ jres' = <<jra, jrb>>
    /\ jpc' = "returned"
    /\ UNCHANGED <<jrayon, jpa, jpb, jruns, jA, jB, jlog, jra, jrb>>

\* both closures finished and one panicked: the panic is resumed in the caller
RayJoinPanic ==
    /\ jpc = "forked"
    /\ jpa \in {"done", "panicked"}
    /\ jpb \in {"done", "panicked"}
    /\ "panicked" \in {jpa, jpb}
    /\ jpc' = "panicked"
    /\ UNCHANGED <<jrayon, jpa, jpb, jruns, jA, jB, jlog, jra, jrb, jres>>

----------------------------------------------------------------------------
(* IntoParallelIterator::into_par_iter *)

MaxLen == 3
NItems == 2

Items == 1..NItems

Collections == UNION {[1..n -> Items] : n \in 0..MaxLen}

\* IntoIterator::into_iter of a sequence: an iterator at its first element
into_iter(c) == 1

\* lines 213-217: without rayon into_par_iter() is self.into_iter()
IntoParIter ==
    /\ ~irayon
    /\ ipc = "idle"
    /\ inext' = into_iter(iseq)
    /\ ipc' = "iterating"
    /\ UNCHANGED <<irayon, iseq, itodo, ivisit>>

\* Iterator::next returns Some(element) and advances
IterNextBug ==
    /\ ~irayon
    /\ ipc = "iterating"
    /\ inext <= Len(iseq)
    /\ ivisit' = Append(ivisit, <<Len(iseq) + 1 - inext, iseq[Len(iseq) + 1 - inext]>>)
    /\ inext' = inext + 1
    /\ UNCHANGED <<irayon, iseq, ipc, itodo>>

IterNext ==
    /\ ~irayon
    /\ ipc = "iterating"
    /\ inext <= Len(iseq)
    /\ ivisit' = Append(ivisit, <<inext, iseq[inext]>>)
    /\ inext' = inext + 1
    /\ UNCHANGED <<irayon, iseq, ipc, itodo>>

\* Iterator::next returns None
IterEnd ==
    /\ ~irayon
    /\ ipc = "iterating"
    /\ inext > Len(iseq)
    /\ ipc' = "done"
    /\ UNCHANGED <<irayon, iseq, inext, itodo, ivisit>>

\* lines 209-210: rayon's into_par_iter(): the collection becomes a parallel
\* iterator whose items are split among the workers
RayIntoParIter ==
    /\ irayon
    /\ ipc = "idle"
    /\ itodo' = 1..Len(iseq)
    /\ ipc' = "iterating"
    /\ UNCHANGED <<irayon, iseq, inext, ivisit>>

\* some worker visits one of the items that are left
RayVisit(i) ==
    /\ irayon
    /\ ipc = "iterating"
    /\ i \in itodo
    /\ ivisit' = Append(ivisit, <<i, iseq[i]>>)
    /\ itodo' = itodo \ {i}
    /\ UNCHANGED <<irayon, iseq, ipc, inext>>

RayEnd ==
    /\ irayon
    /\ ipc = "iterating"
    /\ itodo = {}
    /\ ipc' = "done"
    /\ UNCHANGED <<irayon, iseq, inext, itodo, ivisit>>

InitIterVars ==
    /\ irayon = FALSE
    /\ iseq = << >>
    /\ ipc = "idle"
    /\ inext = 0
    /\ itodo = {}
    /\ ivisit = << >>

----------------------------------------------------------------------------
(* HygieneRemover *)

MaxCtxt == 1
MaxKids == 2
MaxPasses == 2

\* SyntaxContext::empty()
SyntaxContext_empty == 0

SyntaxContexts == 0..MaxCtxt

\* Span::new orders the two positions
SpanNew(lo, hi, ctxt) ==
    IF lo > hi THEN [lo |-> hi, hi |-> lo, ctxt |-> ctxt]
               ELSE [lo |-> lo, hi |-> hi, ctxt |-> ctxt]

\* line 193: s.with_ctxt(ctxt) is the span with the same positions and ctxt
with_ctxtBug(s, ctxt) == [lo |-> 0, hi |-> 0, ctxt |-> ctxt]

with_ctxt(s, ctxt) == SpanNew(s.lo, s.hi, ctxt)

\* lines 192-194
visit_mut_spanKeep(s) == s

visit_mut_spanToggle(s) ==
    with_ctxt(s, IF s.ctxt = SyntaxContext_empty THEN MaxCtxt ELSE SyntaxContext_empty)

visit_mut_span(s) == with_ctxt(s, SyntaxContext_empty)

\* A node of the tree: its kind, its content, its span and its children.
\* "ts_type" stands for the TypeScript type nodes, the other kinds for
\* every other node.
Node(kind, sym, span, kids) == [kind |-> kind, sym |-> sym, span |-> span, kids |-> kids]

TypeKinds == {"ts_type"}

\* line 190: noop_visit_mut_type!() overrides the visit methods of the
\* TypeScript type nodes with empty bodies
noop_visit_mut_type(n) == n

\* the visit of a node: a type node is left as it is (line 190); of any
\* other node the span is visited and then every child, in order
RECURSIVE visit_mut_node(_)
visit_mut_node(n) ==
    IF n.kind \in TypeKinds
    THEN noop_visit_mut_type(n)
    ELSE Node(n.kind, n.sym, visit_mut_span(n.span),
              [i \in 1..Len(n.kids) |-> visit_mut_node(n.kids[i])])

\* The trees: a module with up to MaxKids items; an item is an expression
\* or a type node and has at most one child, an identifier or a type node
\* that carries the syntax context of its parent. Positions and content
\* follow from the place in the tree; spans are as Span::new makes them,
\* lo <= hi.
Leaves(p, c) ==
    {Node(k, p, SpanNew(p, p + 1, c), << >>) : k \in {"ident", "ts_type"}}

Items1(i) ==
    UNION {{Node(k, 10 * i, SpanNew(10 * i, 10 * i + 9, c), kids) :
              k \in {"expr", "ts_type"},
              kids \in {<< >>} \cup {<<l>> : l \in Leaves(10 * i + 1, c)}} :
           c \in SyntaxContexts}

RECURSIVE ItemSeqs(_)
ItemSeqs(n) ==
    IF n = 0 THEN {<< >>}
    ELSE {Append(s, m) : s \in ItemSeqs(n - 1), m \in Items1(n)}

Trees ==
    {Node("module", 0, SpanNew(0, 99, c), kids) :
        c \in SyntaxContexts, kids \in UNION {ItemSeqs(n) : n \in 0..MaxKids}}

\* One run of the visitor over the whole tree.
HygienePass ==
    /\ Len(hhist) <= MaxPasses
    /\ htree' = visit_mut_node(htree)
    /\ hhist' = Append(hhist, htree')

InitHygVars ==
    /\ htree = Node("module", 0, SpanNew(0, 99, SyntaxContext_empty), << >>)
    /\ hhist = <<htree>>

\* every syntax context in the tree
RECURSIVE CtxtsOf(_)
CtxtsOf(n) ==
    {n.span.ctxt} \cup UNION {CtxtsOf(n.kids[i]) : i \in 1..Len(n.kids)}

\* every syntax context in the tree that is not in or under a type node
RECURSIVE CtxtsOutsideTypes(_)
CtxtsOutsideTypes(n) ==
    IF n.kind \in TypeKinds THEN {}
    ELSE {n.span.ctxt} \cup UNION {CtxtsOutsideTypes(n.kids[i]) : i \in 1..Len(n.kids)}

\* the type nodes of the tree that are not under another type node
RECURSIVE TypeNodes(_)
TypeNodes(n) ==
    IF n.kind \in TypeKinds THEN {n}
    ELSE UNION {TypeNodes(n.kids[i]) : i \in 1..Len(n.kids)}

\* the tree without its syntax contexts: kinds, content, positions, children
RECURSIVE Shape(_)
Shape(n) ==
    [kind |-> n.kind, sym |-> n.sym, lo |-> n.span.lo, hi |-> n.span.hi,
     kids |-> [i \in 1..Len(n.kids) |-> Shape(n.kids[i])]]
----------------------------------------------------------------------------
(* Initial states and specifications *)

InitMapVars ==
    /\ cmapC = EmptyC
    /\ cmapS = EmptyS
    /\ csetC = EmptyC
    /\ csetS = EmptyS
    /\ ops = << >>
    /\ retsC = << >>
    /\ retsS = << >>

InitHeldVars == held = << >>

InitMutFixed ==
    /\ slotTy = <<"Stmt">>
    /\ slot = dummy(slotTy)
    /\ slotPh = FALSE
    /\ mpc = "idle"
    /\ mv = NoVal
    /\ mvPh = FALSE
    /\ mop = "id"
    /\ applied = 0
    /\ pre = NoVal
    /\ ret = NoVal
    /\ last = "init"
    /\ failed = FALSE
    /\ seen = [val |-> NoVal, ph |-> FALSE, last |-> "none", failed |-> FALSE]

\* One thread (thread 0) calls get on the CloneMap of each build.
InitConcVars ==
    /\ tpc = [t \in Threads |-> "idle"]
    /\ tcur = [t \in Threads |-> NoCall]
    /\ told = [t \in Threads |-> None]

InitReentFixed ==
    /\ feature = "sequential"
    /\ stack = << >>
    /\ rpanic = 0

InitJoinFixed ==
    /\ jpc = "idle"
    /\ jA = [n |-> 0, panics |-> FALSE, val |-> 1]
    /\ jB = [n |-> 0, panics |-> FALSE, val |-> 1]
    /\ jlog = << >>
    /\ jra = NoRes
    /\ jrb = NoRes
    /\ jres = <<NoRes, NoRes>>
    /\ jpa = "none"
    /\ jpb = "none"
    /\ jruns = NoRuns

InitJoinVars == InitJoinFixed /\ jrayon = FALSE

InitSpecMut == InitMut /\ InitMapVars /\ InitIterVars /\ InitHygVars /\ InitHeldVars /\ InitConcVars /\ InitReentFixed /\ InitJoinVars

NextMut ==
    \/ \E x \in Vals(slotTy) : Store(x) /\ UNCHANGED <<varsMap, varsConc, varsReent, varsJoin, varsIter, varsHyg, varsHeld>>
    \/ take /\ UNCHANGED <<varsMap, varsConc, varsReent, varsJoin, varsIter, varsHyg, varsHeld>>
    \/ \E op \in Ops : MapBegin(op) /\ UNCHANGED <<varsMap, varsConc, varsReent, varsJoin, varsIter, varsHyg, varsHeld>>
    \/ MapApply /\ UNCHANGED <<varsMap, varsConc, varsReent, varsJoin, varsIter, varsHyg, varsHeld>>
    \/ MapOpPartial /\ UNCHANGED <<varsMap, varsConc, varsReent, varsJoin, varsIter, varsHyg, varsHeld>>
    \/ MapPanic /\ UNCHANGED <<varsMap, varsConc, varsReent, varsJoin, varsIter, varsHyg, varsHeld>>
    \/ MapEnd /\ UNCHANGED <<varsMap, varsConc, varsReent, varsJoin, varsIter, varsHyg, varsHeld>>
    \/ Observe /\ UNCHANGED <<varsMap, varsConc, varsReent, varsJoin, varsIter, varsHyg, varsHeld>>

SpecMut == InitSpecMut /\ [][NextMut]_vars

InitSpecMap == InitMutFixed /\ InitMapVars /\ InitIterVars /\ InitHygVars /\ InitHeldVars /\ InitConcVars /\ InitReentFixed /\ InitJoinVars

NextMap ==
    \/ \E k \in Keys : MapGet(k) /\ UNCHANGED <<varsMut, varsConc, varsReent, varsJoin, varsIter, varsHyg>>
    \/ \E k \in Keys, v \in Values : MapInsert(k, v) /\ UNCHANGED <<varsMut, varsConc, varsReent, varsJoin, varsIter, varsHyg>>
    \/ \E e \in Keys : SetInsert(e) /\ UNCHANGED <<varsMut, varsConc, varsReent, varsJoin, varsIter, varsHyg>>

SpecMap == InitSpecMap /\ [][NextMap]_vars

InitSpecConc == InitMutFixed /\ InitMapVars /\ InitIterVars /\ InitHygVars /\ InitHeldVars /\ InitConcVars /\ InitReentFixed /\ InitJoinVars

NextConc ==
    \/ \E t \in Threads, k \in HotKeys : InsertLock(t, k) /\ UNCHANGED <<varsMut, varsReent, varsJoin, varsIter, varsHyg, varsHeld>>
    \/ \E t \in Threads : InsertRead(t) /\ UNCHANGED <<varsMut, varsReent, varsJoin, varsIter, varsHyg, varsHeld>>
    \/ \E t \in Threads : InsertWrite(t) /\ UNCHANGED <<varsMut, varsReent, varsJoin, varsIter, varsHyg, varsHeld>>
    \/ \E t \in Threads, k \in HotKeys : GetLock(t, k) /\ UNCHANGED <<varsMut, varsReent, varsJoin, varsIter, varsHyg, varsHeld>>
    \/ \E t \in Threads : GetClone(t) /\ UNCHANGED <<varsMut, varsReent, varsJoin, varsIter, varsHyg, varsHeld>>

SpecConc == InitSpecConc /\ [][NextConc]_vars

\* The build is chosen once, when the crate is compiled.
InitSpecReent ==
    /\ InitMutFixed /\ InitMapVars /\ InitIterVars /\ InitHygVars /\ InitHeldVars /\ InitConcVars /\ InitJoinVars
    /\ feature \in {"concurrent", "sequential"}
    /\ stack = << >>
    /\ rpanic = 0

NextReent ==
    \/ \E op \in {"get", "insert"}, k \in HotKeys : \E v \in ArgsOf(op) :
         RCall(op, k, v) /\ UNCHANGED <<varsMut, varsConc, varsJoin, varsIter, varsHyg, varsHeld>>
    \/ RAcquire /\ UNCHANGED <<varsMut, varsConc, varsJoin, varsIter, varsHyg, varsHeld>>
    \/ RBorrowPanic /\ UNCHANGED <<varsMut, varsConc, varsJoin, varsIter, varsHyg, varsHeld>>
    \/ \E op \in {"get", "insert"}, k \in HotKeys : \E v \in ArgsOf(op) :
         RUserCall(op, k, v) /\ UNCHANGED <<varsMut, varsConc, varsJoin, varsIter, varsHyg, varsHeld>>
    \/ RReturn /\ UNCHANGED <<varsMut, varsConc, varsJoin, varsIter, varsHyg, varsHeld>>

SpecReent == InitSpecReent /\ [][NextReent]_vars

InitSpecJoin == InitMutFixed /\ InitMapVars /\ InitIterVars /\ InitHygVars /\ InitHeldVars /\ InitConcVars /\ InitReentFixed /\ InitJoinVars

NextJoin ==
    \/ \E a \in Closures, b \in Closures :
         JoinCall(a, b) /\ UNCHANGED <<varsMut, varsMap, varsConc, varsReent, varsIter, varsHyg, varsHeld>>
    \/ AStart /\ UNCHANGED <<varsMut, varsMap, varsConc, varsReent, varsIter, varsHyg, varsHeld>>
    \/ AEffect /\ UNCHANGED <<varsMut, varsMap, varsConc, varsReent, varsIter, varsHyg, varsHeld>>
    \/ AReturn /\ UNCHANGED <<varsMut, varsMap, varsConc, varsReent, varsIter, varsHyg, varsHeld>>
    \/ APanic /\ UNCHANGED <<varsMut, varsMap, varsConc, varsReent, varsIter, varsHyg, varsHeld>>
    \/ BStart /\ UNCHANGED <<varsMut, varsMap, varsConc, varsReent, varsIter, varsHyg, varsHeld>>
    \/ BEffect /\ UNCHANGED <<varsMut, varsMap, varsConc, varsReent, varsIter, varsHyg, varsHeld>>
    \/ BReturn /\ UNCHANGED <<varsMut, varsMap, varsConc, varsReent, varsIter, varsHyg, varsHeld>>
    \/ BPanic /\ UNCHANGED <<varsMut, varsMap, varsConc, varsReent, varsIter, varsHyg, varsHeld>>
    \/ JoinReturn /\ UNCHANGED <<varsMut, varsMap, varsConc, varsReent, varsIter, varsHyg, varsHeld>>

SpecJoin == InitSpecJoin /\ [][NextJoin]_vars


\* The same calls in both builds: jrayon is the feature flag of the build.
InitSpecJoinPar ==
    /\ InitMutFixed /\ InitMapVars /\ InitIterVars /\ InitHygVars /\ InitHeldVars /\ InitConcVars /\ InitReentFixed /\ InitJoinFixed
    /\ jrayon \in BOOLEAN

NextJoinPar ==
    \/ \E a \in Closures, b \in Closures :
         JoinCall(a, b) /\ UNCHANGED <<varsMut, varsMap, varsConc, varsReent, varsIter, varsHyg, varsHeld>>
    \/ AStart /\ UNCHANGED <<varsMut, varsMap, varsConc, varsReent, varsIter, varsHyg, varsHeld>>
    \/ AEffect /\ UNCHANGED <<varsMut, varsMap, varsConc, varsReent, varsIter, varsHyg, varsHeld>>
    \/ AReturn /\ UNCHANGED <<varsMut, varsMap, varsConc, varsReent, varsIter, varsHyg, varsHeld>>
    \/ APanic /\ UNCHANGED <<varsMut, varsMap, varsConc, varsReent, varsIter, varsHyg, varsHeld>>
    \/ BStart /\ UNCHANGED <<varsMut, varsMap, varsConc, varsReent, varsIter, varsHyg, varsHeld>>
    \/ BEffect /\ UNCHANGED <<varsMut, varsMap, varsConc, varsReent, varsIter, varsHyg, varsHeld>>
    \/ BReturn /\ UNCHANGED <<varsMut, varsMap, varsConc, varsReent, varsIter, varsHyg, varsHeld>>
    \/ BPanic /\ UNCHANGED <<varsMut, varsMap, varsConc, varsReent, varsIter, varsHyg, varsHeld>>
    \/ JoinReturn /\ UNCHANGED <<varsMut, varsMap, varsConc, varsReent, varsIter, varsHyg, varsHeld>>
    \/ \E a \in Closures, b \in Closures :
         RayJoinCall(a, b) /\ UNCHANGED <<varsMut, varsMap, varsConc, varsReent, varsIter, varsHyg, varsHeld>>
    \/ RayAStart /\ UNCHANGED <<varsMut, varsMap, varsConc, varsReent, varsIter, varsHyg, varsHeld>>
    \/ RayAEffect /\ UNCHANGED <<varsMut, varsMap, varsConc, varsReent, varsIter, varsHyg, varsHeld>>
    \/ RayAReturn /\ UNCHANGED <<varsMut, varsMap, varsConc, varsReent, varsIter, varsHyg, varsHeld>>
    \/ RayAPanic /\ UNCHANGED <<varsMut, varsMap, varsConc, varsReent, varsIter, varsHyg, varsHeld>>
    \/ RayBStart /\ UNCHANGED <<varsMut, varsMap, varsConc, varsReent, varsIter, varsHyg, varsHeld>>
    \/ RayBEffect /\ UNCHANGED <<varsMut, varsMap, varsConc, varsReent, varsIter, varsHyg, varsHeld>>
    \/ RayBReturn /\ UNCHANGED <<varsMut, varsMap, varsConc, varsReent, varsIter, varsHyg, varsHeld>>
    \/ RayBPanic /\ UNCHANGED <<varsMut, varsMap, varsConc, varsReent, varsIter, varsHyg, varsHeld>>
    \/ RayJoinReturn /\ UNCHANGED <<varsMut, varsMap, varsConc, varsReent, varsIter, varsHyg, varsHeld>>
    \/ RayJoinPanic /\ UNCHANGED <<varsMut, varsMap, varsConc, varsReent, varsIter, varsHyg, varsHeld>>

SpecJoinPar == InitSpecJoinPar /\ [][NextJoinPar]_vars

\* Any collection, in either build, is turned into an iterator and consumed.
InitSpecIter ==
    /\ InitMutFixed /\ InitMapVars /\ InitConcVars /\ InitReentFixed /\ InitJoinVars
    /\ InitHygVars /\ InitHeldVars
    /\ irayon \in BOOLEAN
    /\ iseq \in Collections
    /\ ipc = "idle"
    /\ inext = 0
    /\ itodo = {}
    /\ ivisit = << >>

NextIter ==
    \/ IntoParIter /\ UNCHANGED <<varsMut, varsMap, varsConc, varsReent, varsJoin, varsHyg, varsHeld>>
    \/ IterNext /\ UNCHANGED <<varsMut, varsMap, varsConc, varsReent, varsJoin, varsHyg, varsHeld>>
    \/ IterEnd /\ UNCHANGED <<varsMut, varsMap, varsConc, varsReent, varsJoin, varsHyg, varsHeld>>
    \/ RayIntoParIter /\ UNCHANGED <<varsMut, varsMap, varsConc, varsReent, varsJoin, varsHyg, varsHeld>>
    \/ \E i \in 1..MaxLen : RayVisit(i) /\ UNCHANGED <<varsMut, varsMap, varsConc, varsReent, varsJoin, varsHyg, varsHeld>>
    \/ RayEnd /\ UNCHANGED <<varsMut, varsMap, varsConc, varsReent, varsJoin, varsHyg, varsHeld>>

SpecIter == InitSpecIter /\ [][NextIter]_vars

\* Any tree; the visitor is run over it up to MaxPasses + 1 times.
InitSpecHyg ==
    /\ InitMutFixed /\ InitMapVars /\ InitConcVars /\ InitReentFixed /\ InitJoinVars
    /\ InitIterVars /\ InitHeldVars
    /\ htree \in Trees
    /\ hhist = <<htree>>

NextHyg ==
    \/ HygienePass /\ UNCHANGED <<varsMut, varsMap, varsConc, varsReent, varsJoin, varsIter, varsHeld>>

SpecHyg == InitSpecHyg /\ [][NextHyg]_vars

\* Threads insert elements into the CHashSet of the concurrent build.
InitSpecConcSet ==
    /\ InitMutFixed /\ InitMapVars /\ InitConcVars /\ InitReentFixed /\ InitJoinVars
    /\ InitIterVars /\ InitHygVars /\ InitHeldVars

NextConcSet ==
    \/ \E t \in Threads, e \in HotKeys :
         SetInsertLock(t, e) /\ UNCHANGED <<varsMut, varsReent, varsJoin, varsIter, varsHyg, varsHeld>>
    \/ \E t \in Threads : SetInsertRead(t) /\ UNCHANGED <<varsMut, varsReent, varsJoin, varsIter, varsHyg, varsHeld>>
    \/ \E t \in Threads : SetInsertWrite(t) /\ UNCHANGED <<varsMut, varsReent, varsJoin, varsIter, varsHyg, varsHeld>>

SpecConcSet == InitSpecConcSet /\ [][NextConcSet]_vars
----------------------------------------------------------------------------
(* Claims about the take/replace protocol, checked under SpecMut *)

\* C1: after take() the location holds dummy() of its type and the value
\* returned is the value the location held immediately before the call.
C1_TakeLeavesDummyReturnsOld ==
    (mpc = "idle" /\ last = "take") => (slot = dummy(slotTy) /\ ret = pre)

C1_Witness ==
    /\ mpc = "idle"
    /\ last = "take"
    /\ Head(slotTy) = "Box"
    /\ pre # dummy(slotTy)
    /\ ret = pre

\* C2: after map_with_mut(f) with a transform that returned, the location
\* holds f(x) for the pre-call value x, f was applied exactly once, and
\* with the identity the location holds x again.
C2_MapWritesBackResult ==
    (mpc = "idle" /\ last = "map_ok") =>
        /\ slot = OpApply(mop, slotTy, pre)
        /\ applied = 1
        /\ (mop = "id" => slot = pre)

C2_Witness ==
    /\ mpc = "idle"
    /\ last = "map_ok"
    /\ mop = "rewrite"
    /\ slot # pre
    /\ slot # dummy(slotTy)

\* C3: when the transform panics the call ends with the panic (it does not
\* return), and the location holds the placeholder: the dummy() of its type,
\* not the object taken out of it and not the value the transform was
\* rewriting.
C3_PanicLeavesDummy ==
    (mpc = "idle" /\ last = "map_panic") =>
        /\ slot = dummy(slotTy)
        /\ slotPh
        /\ applied = 0
        /\ failed

C3_Witness ==
    /\ mpc = "idle"
    /\ last = "map_panic"
    /\ mop = "rewrite_panic"
    /\ pre # dummy(slotTy)
    /\ slot # pre

\* C4, as stated: whenever no map_with_mut call is in progress (before a
\* call, and after a call has ended in any way) the location does not hold
\* the placeholder a call substituted.
C4_PlaceholderNeverOutside == mpc = "idle" => ~slotPh

\* C4, amended: whenever no call is in progress and no transform has
\* panicked on the location since it was last assigned or taken, the
\* location does not hold a placeholder of map_with_mut, and an observer
\* (who can read only while no call is in progress) has seen one only
\* after such a panic.
C4_PlaceholderOnlyAfterPanic ==
    /\ (mpc = "idle" /\ slotPh) => failed
    /\ seen.ph => seen.failed
    /\ (mpc = "idle" /\ last = "map_ok" /\ ~failed) => ~slotPh

C4_Witness ==
    /\ seen.last = "map_ok"
    /\ ~seen.failed
    /\ ~seen.ph
    /\ seen.val = dummy(slotTy)
    /\ mop = "dummy"

----------------------------------------------------------------------------
(* Claims about CloneMap and CHashSet in single-threaded use, under SpecMap *)

\* The reference map: what is stored under key k just before call i, read
\* off the calls alone.
InsertsBefore(i, k) == {j \in 1..(i - 1) : ops[j].op = "insert" /\ ops[j].k = k}

LastOf(S) == CHOOSE j \in S : \A j2 \in S : j2 <= j

RefBefore(i, k) ==
    IF InsertsBefore(i, k) = {} THEN None ELSE Some(ops[LastOf(InsertsBefore(i, k))].v)

MapCalls == {i \in 1..Len(ops) : ops[i].op \in {"get", "insert"}}

SetCalls == {i \in 1..Len(ops) : ops[i].op = "set_insert"}

\* C5: from an empty CloneMap, insert(k, v) returns what was stored under k
\* just before it (None if nothing) and stores v; get(k) returns a copy of the
\* value last inserted under k, None if there is none.  On both builds.
C5_BehavesAsReferenceMap ==
    /\ \A i \in MapCalls :
         /\ retsC[i] = RefBefore(i, ops[i].k)
         /\ retsS[i] = RefBefore(i, ops[i].k)
    /\ \A k \in Keys :
         /\ ShardRead(cmapC, k) = RefBefore(Len(ops) + 1, k)
         /\ cmapS.map[k] = RefBefore(Len(ops) + 1, k)

C5_Witness ==
    /\ Len(ops) = 3
    /\ ops[1].op = "insert" /\ ops[2].op = "insert" /\ ops[3].op = "get"
    /\ ops[1].k = ops[2].k /\ ops[2].k = ops[3].k
    /\ ops[1].v # ops[2].v
    /\ retsS[1] = None /\ retsS[2] = Some(ops[1].v) /\ retsS[3] = Some(ops[2].v)

\* C6: the same calls in the same order return the same values on the
\* DashMap build and on the RefCell<HashMap> build.
C6_BackendsAgree == \A i \in MapCalls : retsC[i] = retsS[i]

C6_Witness ==
    /\ Len(ops) = 3
    /\ ops[1].op = "insert" /\ ops[2].op = "get" /\ ops[3].op = "get"
    /\ ops[1].k = ops[2].k /\ ops[3].k # ops[1].k
    /\ ShardOf(ops[3].k) = ShardOf(ops[1].k)
    /\ retsC[2] = Some(ops[1].v) /\ retsC[3] = None
    /\ retsC = retsS

\* C8: CHashSet::insert(e) returns true exactly when no earlier call
\* inserted e, on both builds.
C8_SetInsertTrueIffNew ==
    \A i \in SetCalls :
        LET new == \A j \in SetCalls : j < i => ops[j].k # ops[i].k IN
        /\ retsC[i] = new
        /\ retsS[i] = new

C8_Witness ==
    /\ Len(ops) = 3
    /\ \A i \in 1..3 : ops[i].op = "set_insert"
    /\ ops[1].k = ops[2].k /\ ops[3].k # ops[1].k
    /\ retsC = <<TRUE, FALSE, TRUE>>
    /\ retsS = <<TRUE, FALSE, TRUE>>

----------------------------------------------------------------------------
(* Claims about threads on the concurrent build, under SpecConc *)

InsertsOn(k) == {i \in 1..Len(ops) : ops[i].op = "insert" /\ ops[i].k = k}

\* C7: each get and insert is atomic.  Whatever the interleaving, the
\* inserts under one key behave as if run one after the other in the order
\* they took effect: exactly one of them returns None, every other returns
\* the value stored by the insert just before it, no stored value is
\* returned twice, and a get returns the value of the latest insert before
\* it.  (That a get followed by an insert of the same thread is not atomic
\* as a pair is the reachable state C7_Witness.)
C7_InsertsLinearizable ==
    /\ \A k \in Keys :
         /\ InsertsOn(k) # {} => Cardinality({i \in InsertsOn(k) : retsC[i] = None}) = 1
         /\ \A i \in InsertsOn(k) : retsC[i] = RefBefore(i, k)
         /\ \A i \in InsertsOn(k), j \in InsertsOn(k) : i # j => retsC[i] # retsC[j]
    /\ \A i \in 1..Len(ops) : ops[i].op = "get" => retsC[i] = RefBefore(i, ops[i].k)

\* Thread t finds the key absent with get; another thread inserts under it;
\* the insert t then makes, its next call, finds that value there.
C7_Witness ==
    \E t \in Threads, i \in 1..Len(ops), j \in 1..Len(ops) :
        /\ i < j
        /\ ops[i].t = t /\ ops[i].op = "get" /\ retsC[i] = None
        /\ ops[j].t = t /\ ops[j].op = "insert" /\ ops[j].k = ops[i].k
        /\ \A m \in (i + 1)..(j - 1) : ops[m].t # t
        /\ \E m \in (i + 1)..(j - 1) :
             /\ ops[m].op = "insert" /\ ops[m].k = ops[i].k
             /\ retsC[m] = None
             /\ retsC[j] = Some(ops[m].v)

----------------------------------------------------------------------------
(* Claims about calls made from user code, under SpecReent *)

----------------------------------------------------------------------------
(* Claims about join without rayon, under SpecJoin *)

\* C10: oper_a runs to completion before oper_b starts: every effect of a
\* is recorded before every effect of b, and once b has started a has
\* returned with all its effects recorded.
C10_ABeforeB ==
    /\ \A i \in 1..Len(jlog), j \in 1..Len(jlog) :
         (jlog[i][1] = "a" /\ jlog[j][1] = "b") => i < j
    /\ (jpc \in {"b_running", "b_done", "returned"} \/ Count("b") > 0) =>
         /\ jra = jA.val
         /\ Count("a") = jA.n

C10_Witness ==
    /\ jpc = "returned"
    /\ jA.n = 2
    /\ jB.n = 2
    /\ jlog = << <<"a", 1>>, <<"a", 2>>, <<"b", 1>>, <<"b", 2>> >>

\* C11: when oper_a panics the pair is abandoned at once: oper_b is never
\* started, records no effect and returns nothing, and join does not return.
C11_BNeverRunsAfterAFails ==
    jA.panics =>
        /\ Count("b") = 0
        /\ jrb = NoRes
        /\ jpc \notin {"a_done", "b_running", "b_done", "returned"}

C11_Witness ==
    /\ jpc = "panicked"
    /\ jA.panics
    /\ jA.n = 2
    /\ jB.n = 2
    /\ ~jB.panics
    /\ jlog = << <<"a", 1>>, <<"a", 2>> >>

\* which closures of the current call have panicked
APanicked ==
    \/ jpa = "panicked"
    \/ (~jrayon /\ jA.panics /\ jpc = "panicked")

BPanicked ==
    \/ jpb = "panicked"
    \/ (~jrayon /\ jB.panics /\ jpc = "panicked" /\ jruns.b = 1)

\* C12: with and without rayon, a join in which a closure panicked never
\* returns a pair (a returned join has no panicking closure and both results),
\* a panic that was raised ends the join in a panic, and no closure is called
\* more than once.
C12_FailurePropagates ==
    /\ jpc = "returned" =>
          /\ ~jA.panics /\ ~jB.panics
          /\ ~APanicked /\ ~BPanicked
          /\ jres = <<jA.val, jB.val>>
    /\ jpc = "panicked" => (APanicked \/ BPanicked) /\ jres = <<NoRes, NoRes>>
    /\ (jrayon /\ jpc = "forked" /\ (APanicked \/ BPanicked)) => ~ENABLED RayJoinReturn
    /\ jruns.a <= 1
    /\ jruns.b <= 1

\* rayon: oper_b panicked on another worker while oper_a returned normally
C12_Witness ==
    /\ jrayon
    /\ jpc = "panicked"
    /\ jpa = "done"
    /\ jpb = "panicked"
    /\ jra = jA.val
    /\ jruns = [a |-> 1, b |-> 1]
    /\ jlog = << <<"b", 1>>, <<"a", 1>> >>

\* C13: with and without rayon, a join whose closures both return has
\* called each closure exactly once and returns the pair (result of a,
\* result of b), whatever order the closures ran in.
C13_PairInOrder ==
    (jpc = "returned") =>
        /\ jruns = [a |-> 1, b |-> 1]
        /\ jres = <<jA.val, jB.val>>
        /\ Count("a") = jA.n
        /\ Count("b") = jB.n

\* rayon: oper_b ran to its end before oper_a recorded anything
C13_Witness ==
    /\ jrayon
    /\ jpc = "returned"
    /\ jA.val = 1
    /\ jB.val = 2
    /\ jres = <<1, 2>>
    /\ jlog = << <<"b", 1>>, <<"b", 2>>, <<"a", 1>> >>

\* the visits of position i of the collection
VisitsOf(i) == {j \in 1..Len(ivisit) : ivisit[j][1] = i}

\* C14: once the result of into_par_iter() is consumed, every element of the
\* collection has been visited exactly once, with and without rayon, and
\* without rayon the visits are in the order of the collection; no element
\* is ever visited twice.
C14_EachElementOnce ==
    /\ \A i \in 1..Len(iseq) : Cardinality(VisitsOf(i)) <= 1
    /\ \A j \in 1..Len(ivisit) :
          /\ ivisit[j][1] \in 1..Len(iseq)
          /\ ivisit[j][2] = iseq[ivisit[j][1]]
    /\ ~irayon => \A j \in 1..Len(ivisit) : ivisit[j][1] = j
    /\ (ipc = "done") =>
          /\ \A i \in 1..Len(iseq) : Cardinality(VisitsOf(i)) = 1
          /\ ~irayon => [j \in 1..Len(ivisit) |-> ivisit[j][2]] = iseq

\* without rayon, a collection with a repeated element, fully consumed
C14_Witness ==
    /\ ~irayon
    /\ ipc = "done"
    /\ iseq = <<2, 1, 2>>
    /\ ivisit = << <<1, 2>>, <<2, 1>>, <<3, 2>> >>

C17_Idempotent ==
    \A i \in 3..Len(hhist) : hhist[i] = hhist[2]

\* two passes over a tree that the first pass changed
C17_Witness ==
    /\ Len(hhist) = 3
    /\ hhist[2] # hhist[1]
    /\ hhist[3] = hhist[2]
    /\ htree = hhist[3]
    /\ Len(htree.kids) = 2

\* the step is a call of the given operation that has just returned
Returns(op) ==
    /\ Len(ops') = Len(ops) + 1
    /\ ops'[Len(ops')].op = op

\* C18: a get leaves both containers as they were, whatever the key, and
\* what any earlier get returned reads the same after every later call,
\* an insert under the same key included.
C18_GetStep ==
    /\ Returns("get") => (cmapC' = cmapC /\ cmapS' = cmapS /\ csetC' = csetC /\ csetS' = csetS)
    /\ \A i \in 1..Len(held) :
          /\ i <= Len(held')
          /\ Deref(held'[i].c, ShardRead(cmapC', held'[i].k)) = retsC[held[i].at]
          /\ Deref(held'[i].s, LookupS(cmapS', held'[i].k)) = retsS[held[i].at]

C18_GetReadOnlyOwnedCopy == [][C18_GetStep]_vars

\* get(k) returned Some(v); a later insert stored another value under k
C18_Witness ==
    /\ Len(ops) = 3
    /\ ops[1].op = "insert"
    /\ ops[2].op = "get"
    /\ ops[3].op = "insert"
    /\ ops[1].k = ops[2].k
    /\ ops[3].k = ops[2].k
    /\ ops[3].v # ops[1].v
    /\ Len(held) = 1
    /\ Deref(held[1].s, LookupS(cmapS, held[1].k)) = Some(ops[1].v)
    /\ Deref(held[1].c, ShardRead(cmapC, held[1].k)) = Some(ops[1].v)
    /\ LookupS(cmapS, held[1].k) = Some(ops[3].v)

\* the calls of CHashSet::insert with element e that have returned
SetInsertsOf(e) == {i \in 1..Len(ops) : ops[i].op = "set_insert" /\ ops[i].k = e}

\* C19: of the calls of CHashSet::insert that threads make with the same
\* new element, exactly one returns true, the first to take the lock, and
\* every other one returns false.
C19_ExactlyOneTrue ==
    \A e \in HotKeys :
        SetInsertsOf(e) # {} =>
            /\ Cardinality({i \in SetInsertsOf(e) : retsC[i] = TRUE}) = 1
            /\ \A i \in SetInsertsOf(e) : retsC[i] = (\A j \in SetInsertsOf(e) : i <= j)

\* two threads inserted the same element, a third call is under way
C19_Witness ==
    /\ Len(ops) = 2
    /\ ops[1].op = "set_insert"
    /\ ops[2].op = "set_insert"
    /\ ops[1].k = ops[2].k
    /\ ops[1].t # ops[2].t
    /\ retsC = <<TRUE, FALSE>>
    /\ \E t \in Threads : tpc[t] = "sread" /\ tcur[t].k = ops[1].k /\ told[t] # None

\* C20 (steps): an insert(k, v) leaves the entry of every other key as it
\* was, in both builds, and no call of any operation removes an entry from
\* a map or a set.
C20_Step ==
    /\ Returns("insert") =>
          \A j \in Keys \ {ops'[Len(ops')].k} :
              /\ ShardRead(cmapC', j) = ShardRead(cmapC, j)
              /\ LookupS(cmapS', j) = LookupS(cmapS, j)
    /\ \A j \in Keys :
          /\ ~is_none(ShardRead(cmapC, j)) => ~is_none(ShardRead(cmapC', j))
          /\ ~is_none(LookupS(cmapS, j)) => ~is_none(LookupS(cmapS', j))
          /\ ~is_none(ShardRead(csetC, j)) => ~is_none(ShardRead(csetC', j))
          /\ ~is_none(LookupS(csetS, j)) => ~is_none(LookupS(csetS', j))

\* C20 (history): a get under a key that an earlier insert stored returns Some
C20_GetAfterInsert ==
    \A i \in 1..Len(ops) :
        (ops[i].op = "get" /\ InsertsBefore(i, ops[i].k) # {}) =>
            (~is_none(retsC[i]) /\ ~is_none(retsS[i]))

\* C20: the containers only grow and insert touches one key.
C20_OnlyGrows == [][C20_Step]_vars /\ []C20_GetAfterInsert

\* two keys of one shard were inserted, then the first is read
C20_Witness ==
    /\ Len(ops) = 3
    /\ ops[1].op = "insert"
    /\ ops[2].op = "insert"
    /\ ops[3].op = "get"
    /\ ops[1].k # ops[2].k
    /\ ShardOf(ops[1].k) = ShardOf(ops[2].k)
    /\ ops[3].k = ops[1].k
    /\ retsC[3] = Some(ops[1].v)
    /\ retsS[3] = Some(ops[1].v)

====
